---- MODULE Spec2Model ----
(***************************************************************************)
(* Model of the bank settlement report pipeline of upload/tasks.py:        *)
(* clean_column_name, convert_to_int and the Celery task                   *)
(* process_uploaded_files (read, normalise headers, derive one record per  *)
(* row, bulk insert).                                                      *)
(*                                                                         *)
(* Text is modelled by TLA+ strings, read character by character with      *)
(* SubSeq.  A cell of the DataFrame is a record [kind, s]: the string s    *)
(* (kind "str"), pandas' NaN (kind "NaN"), or Python's None (kind "None"). *)
(***************************************************************************)
EXTENDS Integers, Sequences, FiniteSets, TLC

VARIABLES
    pc,                  \* position of the task inside process_uploaded_files
    file_format,         \* argument file_format
    bank_name,           \* argument bank_name
    transaction_type,    \* argument transaction_type
    file_content,        \* argument file_content: what the bytes hold
    df,                  \* the DataFrame: [columns, rows]
    bank_code,           \* local bank_code
    index,               \* number of rows the loop has consumed
    bulk_data_bookings,  \* local bulk_data_bookings
    bulk_data_refunds,   \* local bulk_data_refunds
    calls,               \* bulk insert calls made on the models, in order
    log,                 \* warning and error records sent to the logger
    probe,               \* a direct call of a helper: [fn, arg, ret, returned]
    request,             \* the request given to upload_files
    view_pc,             \* position of the view inside upload_files
    file_index,          \* number of files the view's loop has consumed
    queue,               \* messages sent by process_uploaded_files.delay, in order
    outcomes,            \* how the worker's run of each message has ended
    response             \* what upload_files returned

vars == <<pc, file_format, bank_name, transaction_type, file_content, df,
          bank_code, index, bulk_data_bookings, bulk_data_refunds, calls,
          log, probe, request, view_pc, file_index, queue, outcomes, response>>

view_vars == <<request, view_pc, file_index, queue, outcomes, response>>

---------------------------------------------------------------------------
(* Bounds of the model *)

\* longest header string given to clean_column_name on its own
MaxHeaderLen == 3
\* longest text given to convert_to_int on its own
MaxNumLen == 3
\* most rows of an uploaded table
MaxRows == 2

---------------------------------------------------------------------------
(* Characters and strings *)

\* str.split() and str.strip() without arguments act on whitespace
Whitespace == {" ", "\t"}

Digits == {"0", "1", "2", "3", "4", "5", "6", "7", "8", "9"}

DigitVal(c) ==
    CASE c = "0" -> 0 [] c = "1" -> 1 [] c = "2" -> 2 [] c = "3" -> 3
      [] c = "4" -> 4 [] c = "5" -> 5 [] c = "6" -> 6 [] c = "7" -> 7
      [] c = "8" -> 8 [] c = "9" -> 9

\* the i-th character of s, as a string of length 1
Char(s, i) == SubSeq(s, i, i)

\* all strings over alphabet of length at most n
RECURSIVE StringsUpTo(_, _)
StringsUpTo(alphabet, n) ==
    IF n = 0 THEN {""}
    ELSE LET shorter == StringsUpTo(alphabet, n - 1)
         IN  shorter \cup {s \o c : s \in shorter, c \in alphabet}

\* ''.join(parts)
RECURSIVE join(_)
join(parts) ==
    IF parts = <<>> THEN "" ELSE Head(parts) \o join(Tail(parts))

\* s.split(): the maximal runs of non-whitespace characters of s, in order
RECURSIVE split_from(_, _, _)
split_from(s, i, part) ==
    IF i > Len(s) THEN (IF part = "" THEN <<>> ELSE <<part>>)
    ELSE IF Char(s, i) \in Whitespace
         THEN (IF part = "" THEN <<>> ELSE <<part>>) \o split_from(s, i + 1, "")
         ELSE split_from(s, i + 1, part \o Char(s, i))

split(s) == split_from(s, 1, "")

RECURSIVE lstrip(_)
lstrip(s) ==
    IF s # "" /\ Char(s, 1) \in Whitespace THEN lstrip(SubSeq(s, 2, Len(s)))
    ELSE s

RECURSIVE rstrip(_)
rstrip(s) ==
    IF s # "" /\ Char(s, Len(s)) \in Whitespace
    THEN rstrip(SubSeq(s, 1, Len(s) - 1))
    ELSE s

\* s.strip()
strip(s) == lstrip(rstrip(s))

\* ''.join(char for char in s if char not in removed)
RECURSIVE without_chars(_, _)
without_chars(s, removed) ==
    IF s = "" THEN ""
    ELSE (IF Char(s, 1) \in removed THEN "" ELSE Char(s, 1))
         \o without_chars(SubSeq(s, 2, Len(s)), removed)

---------------------------------------------------------------------------
(* clean_column_name *)

\* a slip: only '.' is filtered out, '_' is kept
clean_column_name_keeps_underscore(column_name) ==
    strip(without_chars(join(split(column_name)), {"."}))

clean_column_name(column_name) ==
    LET parts == split(column_name)
        cleaned_name == join(SelectSeq(parts, LAMBDA part : part # ""))
    IN  strip(without_chars(cleaned_name, {".", "_"}))

---------------------------------------------------------------------------
(* Cells of the DataFrame, as row.get hands them to the coercions *)

NaN == [kind |-> "NaN", s |-> ""]
None == [kind |-> "None", s |-> ""]
Str(s) == [kind |-> "str", s |-> s]

\* pd.isna(val) / pd.notnull(val) of a scalar
isna(val) == val.kind \in {"NaN", "None"}
notnull(val) == ~isna(val)

---------------------------------------------------------------------------
(* float(str) and int(float) of Python *)

\* A float is [kind, neg, ip, frac]: kind "finite" with sign, integer part
\* and the digits after the point (no trailing zero), or "inf", or "nan".
\* kind "ValueError" / "OverflowError" stand for the exception raised.
Finite(neg, ip, frac) == [kind |-> "finite", neg |-> neg, ip |-> ip, frac |-> frac]
Inf(neg) == [kind |-> "inf", neg |-> neg, ip |-> 0, frac |-> ""]
NaNFloat == [kind |-> "nan", neg |-> FALSE, ip |-> 0, frac |-> ""]
ValueError == [kind |-> "ValueError", neg |-> FALSE, ip |-> 0, frac |-> ""]
OverflowError == [kind |-> "OverflowError", neg |-> FALSE, ip |-> 0, frac |-> ""]

IsException(v) == v.kind \in {"ValueError", "OverflowError"}

IsDigits(s) == \A i \in 1..Len(s) : Char(s, i) \in Digits

RECURSIVE DigitsValue(_)
DigitsValue(s) ==
    IF s = "" THEN 0
    ELSE DigitsValue(SubSeq(s, 1, Len(s) - 1)) * 10 + DigitVal(Char(s, Len(s)))

RECURSIVE StripTrailingZeros(_)
StripTrailingZeros(s) ==
    IF s # "" /\ Char(s, Len(s)) = "0"
    THEN StripTrailingZeros(SubSeq(s, 1, Len(s) - 1))
    ELSE s

LowerChar(c) ==
    CASE c = "I" -> "i" [] c = "N" -> "n" [] c = "F" -> "f" [] c = "T" -> "t"
      [] c = "Y" -> "y" [] c = "A" -> "a" [] OTHER -> c

RECURSIVE lower(_)
lower(s) ==
    IF s = "" THEN "" ELSE LowerChar(Char(s, 1)) \o lower(SubSeq(s, 2, Len(s)))

\* float(s) for a string s: surrounding whitespace is ignored, then an
\* optional sign, then inf / infinity / nan in any case or a decimal numeral
\* digits[.digits] | .digits.  (Exponents and digit-group underscores are
\* not in the alphabets of the model and are not recognised here.)
float(s) ==
    LET t == strip(s)
        signed == t # "" /\ Char(t, 1) \in {"+", "-"}
        neg == signed /\ Char(t, 1) = "-"
        body == IF signed THEN SubSeq(t, 2, Len(t)) ELSE t
        dots == {i \in 1..Len(body) : Char(body, i) = "."}
    IN  IF lower(body) \in {"inf", "infinity"} THEN Inf(neg)
        ELSE IF lower(body) = "nan" THEN NaNFloat
        ELSE IF Cardinality(dots) > 1 THEN ValueError
        ELSE LET d == IF dots = {} THEN Len(body) + 1
                      ELSE CHOOSE i \in dots : TRUE
                 ipart == SubSeq(body, 1, d - 1)
                 fpart == SubSeq(body, d + 1, Len(body))
             IN  IF IsDigits(ipart) /\ IsDigits(fpart)
                    /\ (ipart # "" \/ fpart # "")
                 THEN Finite(neg, DigitsValue(ipart), StripTrailingZeros(fpart))
                 ELSE ValueError

\* a slip: int() rounds half away from zero instead of truncating
int_rounding(f) ==
    IF f.kind = "inf" THEN [kind |-> "OverflowError", val |-> 0]
    ELSE IF f.kind = "nan" THEN [kind |-> "ValueError", val |-> 0]
    ELSE LET up == f.frac # "" /\ DigitVal(Char(f.frac, 1)) >= 5
             mag == IF up THEN f.ip + 1 ELSE f.ip
         IN  [kind |-> "int", val |-> IF f.neg THEN 0 - mag ELSE mag]

\* int(f) for a float f: truncation toward zero; OverflowError for an
\* infinity, ValueError for a NaN
int(f) ==
    IF f.kind = "inf" THEN [kind |-> "OverflowError", val |-> 0]
    ELSE IF f.kind = "nan" THEN [kind |-> "ValueError", val |-> 0]
    ELSE [kind |-> "int", val |-> IF f.neg THEN 0 - f.ip ELSE f.ip]

---------------------------------------------------------------------------
(* convert_to_int *)

\* The result is [kind, val]: an integer (kind "int"), None (kind "None"),
\* or an exception leaving the function (kind "raise").
IntResult(n) == [kind |-> "int", val |-> n]
NoneResult == [kind |-> "None", val |-> 0]
RaiseResult == [kind |-> "raise", val |-> 0]

convert_to_int(val) ==
    IF isna(val) \/ val.s = "" THEN NoneResult
    ELSE LET f == float(val.s)
             n == IF IsException(f) THEN [kind |-> f.kind, val |-> 0]
                  ELSE int(f)
         IN  IF n.kind = "int" THEN n
             \* except (ValueError, OverflowError)
             ELSE IF n.kind \in {"ValueError", "OverflowError"} THEN NoneResult
             ELSE RaiseResult

---------------------------------------------------------------------------
(* pd.to_datetime(val, errors='coerce') *)

\* A timestamp is [nat, y, m, d]; NaT is pandas' null timestamp.
NaT == [nat |-> TRUE, y |-> 0, m |-> 0, d |-> 0]
Timestamp(y, m, d) == [nat |-> FALSE, y |-> y, m |-> m, d |-> d]

\* Of the formats pandas accepts the model reads YYYY-MM-DD; every other
\* text of the model's cells is no date, and errors='coerce' turns it, like
\* a null cell, into NaT.
to_datetime(val) ==
    IF isna(val) THEN NaT
    ELSE LET s == val.s
         IN  IF /\ Len(s) = 10
                /\ Char(s, 5) = "-" /\ Char(s, 8) = "-"
                /\ IsDigits(SubSeq(s, 1, 4))
                /\ IsDigits(SubSeq(s, 6, 7))
                /\ IsDigits(SubSeq(s, 9, 10))
                /\ DigitsValue(SubSeq(s, 6, 7)) \in 1..12
                /\ DigitsValue(SubSeq(s, 9, 10)) \in 1..31
             THEN Timestamp(DigitsValue(SubSeq(s, 1, 4)),
                            DigitsValue(SubSeq(s, 6, 7)),
                            DigitsValue(SubSeq(s, 9, 10)))
             ELSE NaT

---------------------------------------------------------------------------
(* The static tables *)

BANK_CODE_MAPPING == [hdfc |-> 101, icici |-> 102, karur_vysya |-> 40]

BANK_MAPPINGS ==
    [karur_vysya |->
        [booking |->
            [columns |-> <<"TXN DATE", "IRCTC ORDER NO.", "BANK BOOKING REF.NO.",
                           "BOOKING AMOUNT", "CREDITED ON">>,
             column_mapping |->
                 ("IRCTCORDERNO" :> "irctc_order_no"
                  @@ "BANKBOOKINGREFNO" :> "bank_booking_ref_no"
                  @@ "BOOKINGAMOUNT" :> "booking_amount"
                  @@ "TXNDATE" :> "transaction_date"
                  @@ "CREDITEDON" :> "credited_date")],
         refund |->
            [columns |-> <<"REFUND DATE", "IRCTC ORDER NO.", "BANK BOOKING REF.NO.",
                           "BANK REFUND REF.NO.", "REFUND AMOUNT", "DEBITED ON">>,
             column_mapping |->
                 ("IRCTCORDERNO" :> "irctc_order_no"
                  @@ "REFUNDAMOUNT" :> "refund_amount"
                  @@ "DEBITEDON" :> "debited_date"
                  @@ "REFUNDDATE" :> "refund_date"
                  @@ "BANKBOOKINGREFNO" :> "bank_booking_ref_no"
                  @@ "BANKREFUNDREFNO" :> "bank_refund_ref_no")]]]

Range(f) == {f[x] : x \in DOMAIN f}

---------------------------------------------------------------------------
(* The arguments of an invocation *)

FileFormats == {"excel", "csv", "pdf"}
BankNames == {"karur_vysya", "hdfc", "sbi"}
TransactionTypes == {"booking", "refund", "chargeback"}

\* the header s as another bank clerk would type it: '_' for ' ', no '.'
RECURSIVE restyle(_)
restyle(s) ==
    IF s = "" THEN ""
    ELSE (CASE Char(s, 1) = " " -> "_" [] Char(s, 1) = "." -> ""
            [] OTHER -> Char(s, 1))
         \o restyle(SubSeq(s, 2, Len(s)))

\* the text cells a column of an uploaded file holds in the model
\* ("" is an empty cell); rich: the coercions' cases, else one plain cell
CellTexts(type, column, rich) ==
    LET name == clean_column_name(column)
    IN  CASE name = "IRCTCORDERNO" ->
                 IF rich THEN {"", "12345", "0"} ELSE {"12345"}
          [] name = "BANKBOOKINGREFNO" ->
                 IF ~rich THEN {"678.0"}
                 ELSE IF type = "refund" THEN {""}
                 ELSE {"", "678.0"}
          [] name = "BANKREFUNDREFNO" ->
                 IF rich THEN {"abc", "901"} ELSE {"901"}
          [] name \in {"BOOKINGAMOUNT", "REFUNDAMOUNT"} ->
                 IF rich THEN {"", "99.5", "abc"} ELSE {"99.5"}
          [] name \in {"TXNDATE", "REFUNDDATE"} -> {"2024-01-05"}
          [] name \in {"CREDITEDON", "DEBITEDON"} ->
                 IF rich THEN {""} ELSE {"", "soon"}
          [] OTHER -> {"ok"}

\* the rows a table with these columns can hold
RECURSIVE RowsOver(_, _, _)
RowsOver(type, columns, rich) ==
    IF columns = <<>> THEN {<<>>}
    ELSE {<<c>> \o r : c \in CellTexts(type, Head(columns), rich),
                       r \in RowsOver(type, Tail(columns), rich)}

SeqsUpTo(S, n) == UNION {[1..k -> S] : k \in 0..n}

\* columns without the positions in omitted
RECURSIVE Omit(_, _, _)
Omit(columns, omitted, i) ==
    IF i > Len(columns) THEN <<>>
    ELSE (IF i \in omitted THEN <<>> ELSE <<columns[i]>>)
         \o Omit(columns, omitted, i + 1)

\* the header row a bank prints for a transaction type; a type without a
\* schema gets the booking layout
DeclaredColumns(type) ==
    IF type \in DOMAIN BANK_MAPPINGS.karur_vysya
    THEN BANK_MAPPINGS.karur_vysya[type].columns
    ELSE BANK_MAPPINGS.karur_vysya.booking.columns

RestyledColumns(type) ==
    [i \in 1..Len(DeclaredColumns(type)) |-> restyle(DeclaredColumns(type)[i])]
    \o <<"REMARKS">>

Unparseable == [parses |-> FALSE, columns |-> <<>>, rows |-> <<>>]

\* the headers of the tables whose cells cover the coercions' cases:
\* booking files with the declared headers, refund files restyled and with
\* one more column
RichColumns(type) ==
    IF type = "booking" THEN DeclaredColumns(type) ELSE RestyledColumns(type)

Table(columns, rows) == [parses |-> TRUE, columns |-> columns, rows |-> rows]

\* tables of at most one plain row, in either header style, with any set of
\* the required columns left out
PlainTables(type) ==
    UNION {
        LET columns == Omit(styled, omitted, 1)
        IN  {Table(columns, rows) :
                rows \in SeqsUpTo(RowsOver(type, columns, FALSE), 1)} :
        styled \in {DeclaredColumns(type), RestyledColumns(type)},
        omitted \in SUBSET (1..Len(DeclaredColumns(type)))}

---------------------------------------------------------------------------
(* process_uploaded_files *)

\* A warning or error record of the logger: the message, the exception it
\* reports, the column names and the row index it names (-1: none).
LogRecord(level, msg, exc, columns, row) ==
    [level |-> level, msg |-> msg, exc |-> exc, columns |-> columns, row |-> row]

\* the handler of the outer try: logger.error("Error processing file ...")
FileError(exc, columns) ==
    LogRecord("error", "Error processing file", exc, columns, -1)

\* the readers run with dtype=str: every cell stays text, and an empty cell
\* is pandas' NaN
read_cell(text) == IF text = "" THEN NaN ELSE Str(text)

read_table(content) ==
    [columns |-> content.columns,
     rows |-> [i \in 1..Len(content.rows) |->
                  [j \in 1..Len(content.rows[i]) |-> read_cell(content.rows[i][j])]]]

EmptyFrame == [columns |-> <<>>, rows |-> <<>>]

\* row.get(name): the cell under the column called name, None without one.
\* (No two columns of the model's tables share a name.)
row_get(columns, row, name) ==
    IF \E j \in 1..Len(columns) : columns[j] = name
    THEN row[CHOOSE j \in 1..Len(columns) : columns[j] = name]
    ELSE None

\* a slip: an amount float() rejects becomes 0.0 as well
amount_of_tolerant(val) ==
    IF notnull(val) /\ float(val.s).kind # "ValueError" THEN float(val.s)
    ELSE Finite(FALSE, 0, "")

\* float(x) if pd.notnull(x) else 0.0
amount_of(val) == IF notnull(val) THEN float(val.s) ELSE Finite(FALSE, 0, "")

\* the dict the booking branch builds for a row
booking_data(code, columns, row) ==
    [bank_code |-> code,
     transaction_date |-> to_datetime(row_get(columns, row, "transaction_date")),
     credited_date |-> to_datetime(row_get(columns, row, "credited_date")),
     booking_amount |-> amount_of(row_get(columns, row, "booking_amount")),
     irctc_order_no |-> convert_to_int(row_get(columns, row, "irctc_order_no")),
     bank_booking_ref_no |->
         convert_to_int(row_get(columns, row, "bank_booking_ref_no"))]

\* a slip: the refund dict is built without debited_date
refund_data_without_debited_date(code, columns, row) ==
    [bank_code |-> code,
     refund_date |-> to_datetime(row_get(columns, row, "refund_date")),
     bank_booking_ref_no |->
         convert_to_int(row_get(columns, row, "bank_booking_ref_no")),
     bank_refund_ref_no |->
         convert_to_int(row_get(columns, row, "bank_refund_ref_no")),
     refund_amount |-> amount_of(row_get(columns, row, "refund_amount")),
     irctc_order_no |-> convert_to_int(row_get(columns, row, "irctc_order_no"))]

\* the dict the refund branch builds for a row
refund_data(code, columns, row) ==
    [bank_code |-> code,
     refund_date |-> to_datetime(row_get(columns, row, "refund_date")),
     bank_booking_ref_no |->
         convert_to_int(row_get(columns, row, "bank_booking_ref_no")),
     bank_refund_ref_no |->
         convert_to_int(row_get(columns, row, "bank_refund_ref_no")),
     refund_amount |-> amount_of(row_get(columns, row, "refund_amount")),
     debited_date |-> to_datetime(row_get(columns, row, "debited_date")),
     irctc_order_no |-> convert_to_int(row_get(columns, row, "irctc_order_no"))]

\* building the dict raised: float() of the amount, or convert_to_int
booking_raises(data) ==
    \/ IsException(data.booking_amount)
    \/ data.irctc_order_no.kind = "raise"
    \/ data.bank_booking_ref_no.kind = "raise"

refund_raises(data) ==
    \/ IsException(data.refund_amount)
    \/ data.irctc_order_no.kind = "raise"
    \/ data.bank_booking_ref_no.kind = "raise"
    \/ data.bank_refund_ref_no.kind = "raise"

\* Python's truth value of an int-or-None
truthy(n) == n.kind = "int" /\ n.val # 0

\* a slip: the booking reference number is not tested
booking_valid_order_only(data) == truthy(data.irctc_order_no)

\* if transaction_data['irctc_order_no'] and
\*    transaction_data['bank_booking_ref_no'] is not None
booking_valid(data) ==
    truthy(data.irctc_order_no) /\ data.bank_booking_ref_no.kind # "None"

\* if transaction_data['irctc_order_no'] and
\*    transaction_data['bank_refund_ref_no'] is not None
refund_valid(data) ==
    truthy(data.irctc_order_no) /\ data.bank_refund_ref_no.kind # "None"

NoProbe == [fn |-> "", arg |-> NaN, ret |-> NoneResult, returned |-> FALSE]

NoRequest == [method |-> "", is_valid |-> FALSE, bank_name |-> "",
              transaction_type |-> "", files |-> <<>>]

NoResponse == [status |-> 0, body |-> ""]

\* no request has reached upload_files
NoUpload ==
    /\ request = NoRequest
    /\ view_pc = "idle"
    /\ file_index = 0
    /\ queue = <<>>
    /\ outcomes = <<>>
    /\ response = NoResponse

\* the task has been received with these arguments
Received(format, bank, type, content) ==
    /\ pc = "read"
    /\ file_format = format
    /\ bank_name = bank
    /\ transaction_type = type
    /\ file_content = content
    /\ df = EmptyFrame
    /\ bank_code = NoneResult
    /\ index = 0
    /\ bulk_data_bookings = <<>>
    /\ bulk_data_refunds = <<>>
    /\ calls = <<>>
    /\ log = <<>>
    /\ probe = NoProbe
    /\ NoUpload

\* The invocations of the model: csv files of the one bank with a schema
\* holding up to MaxRows rows whose cells cover the coercions' cases, and
\* every format, bank and type with a plain table or an unreadable file.
Init ==
    \/ \E type \in {"booking", "refund"}, k \in 0..MaxRows :
          \E rows \in [1..k -> RowsOver(type, RichColumns(type), TRUE)] :
              Received("csv", "karur_vysya", type, Table(RichColumns(type), rows))
    \/ \E format \in FileFormats, bank \in BankNames, type \in TransactionTypes :
          \E content \in PlainTables(type) \cup {Unparseable} :
              Received(format, bank, type, content)

\* a slip: a file of any format tag is read as csv
ReadFile_any_format ==
    /\ pc = "read"
    /\ IF ~file_content.parses
       THEN /\ log' = Append(log, FileError("the reader's exception", {}))
            /\ pc' = "done"
            /\ UNCHANGED df
       ELSE /\ df' = read_table(file_content)
            /\ pc' = "normalize"
            /\ UNCHANGED log
    /\ UNCHANGED <<file_format, bank_name, transaction_type, file_content,
                   bank_code, index, bulk_data_bookings, bulk_data_refunds,
                   calls, probe, view_vars>>

\* pd.read_excel / pd.read_csv by file_format
ReadFile ==
    /\ pc = "read"
    /\ IF file_format \notin {"excel", "csv"}
       THEN /\ log' = log \o
                  <<LogRecord("error", "Unsupported file format", "", {}, -1),
                    FileError("ValueError: Unsupported file format", {})>>
            /\ pc' = "done"
            /\ UNCHANGED df
       ELSE IF ~file_content.parses
       THEN /\ log' = Append(log, FileError("the reader's exception", {}))
            /\ pc' = "done"
            /\ UNCHANGED df
       ELSE /\ df' = read_table(file_content)
            /\ pc' = "normalize"
            /\ UNCHANGED log
    /\ UNCHANGED <<file_format, bank_name, transaction_type, file_content,
                   bank_code, index, bulk_data_bookings, bulk_data_refunds,
                   calls, probe, view_vars>>

\* df.rename(columns=column_mapping)
rename(columns, column_mapping) ==
    [j \in 1..Len(columns) |->
        IF columns[j] \in DOMAIN column_mapping THEN column_mapping[columns[j]]
        ELSE columns[j]]

\* expected_columns and column_mapping as the task computes them from
\* BANK_MAPPINGS[bank_name][transaction_type], for every schema of the table
CleanedSchemas ==
    [bank \in DOMAIN BANK_MAPPINGS |->
        [type \in DOMAIN BANK_MAPPINGS[bank] |->
            LET schema == BANK_MAPPINGS[bank][type]
                keys == DOMAIN schema.column_mapping
            IN  [expected_columns |->
                     [j \in 1..Len(schema.columns) |->
                         clean_column_name(schema.columns[j])],
                 column_mapping |->
                     [k \in {clean_column_name(key) : key \in keys} |->
                         schema.column_mapping[
                             CHOOSE key \in keys : clean_column_name(key) = k]]]]]

\* a slip: the columns of the file the schema does not expect
missing_of_reversed(expected_columns, columns) ==
    Range(columns) \ Range(expected_columns)

\* set(expected_columns) - set(df.columns)
missing_of(expected_columns, columns) ==
    Range(expected_columns) \ Range(columns)

\* clean the headers, check them against the schema, rename them and look
\* the bank code up
NormalizeHeaders ==
    /\ pc = "normalize"
    /\ LET cleaned == [j \in 1..Len(df.columns) |-> clean_column_name(df.columns[j])]
       IN  IF \/ bank_name \notin DOMAIN BANK_MAPPINGS
              \/ transaction_type \notin DOMAIN BANK_MAPPINGS[bank_name]
           THEN /\ df' = [df EXCEPT !.columns = cleaned]
                /\ log' = Append(log, FileError("KeyError", {}))
                /\ pc' = "done"
                /\ UNCHANGED bank_code
           ELSE
           LET schema == CleanedSchemas[bank_name][transaction_type]
               expected_columns == schema.expected_columns
               missing_columns == missing_of(expected_columns, cleaned)
               column_mapping == schema.column_mapping
           IN  IF missing_columns # {}
               THEN /\ df' = [df EXCEPT !.columns = cleaned]
                    /\ log' = log \o
                          <<LogRecord("warning", "Missing columns in file", "",
                                      missing_columns, -1),
                            FileError("ValueError: Missing columns after cleaning",
                                      missing_columns)>>
                    /\ pc' = "done"
                    /\ UNCHANGED bank_code
               ELSE IF bank_name \notin DOMAIN BANK_CODE_MAPPING
               THEN /\ df' = [df EXCEPT !.columns = rename(cleaned, column_mapping)]
                    /\ log' = Append(log,
                          LogRecord("error", "Bank code not found", "", {}, -1))
                    /\ pc' = "done"
                    /\ UNCHANGED bank_code
               ELSE /\ df' = [df EXCEPT !.columns = rename(cleaned, column_mapping)]
                    /\ bank_code' = IntResult(BANK_CODE_MAPPING[bank_name])
                    /\ pc' = "rows"
                    /\ UNCHANGED log
    /\ UNCHANGED <<file_format, bank_name, transaction_type, file_content,
                   index, bulk_data_bookings, bulk_data_refunds, calls, probe, view_vars>>

\* logger.error("Unexpected error processing row ...") of the inner try
RowError(i) ==
    LogRecord("error", "Unexpected error processing row", "ValueError", {}, i)

\* a slip: no try around the body of the loop, so that the exception of a
\* row reaches the outer handler and ends the task
ProcessRow_uncontained ==
    /\ pc = "rows"
    /\ index < Len(df.rows)
    /\ LET row == df.rows[index + 1]
           booking == booking_data(bank_code.val, df.columns, row)
           refund == refund_data(bank_code.val, df.columns, row)
           raises == IF transaction_type = "booking" THEN booking_raises(booking)
                     ELSE refund_raises(refund)
       IN  IF raises
           THEN /\ log' = Append(log, FileError("ValueError", {}))
                /\ pc' = "done"
                /\ UNCHANGED <<bulk_data_bookings, bulk_data_refunds>>
           ELSE /\ bulk_data_bookings' =
                      IF transaction_type = "booking" /\ booking_valid(booking)
                      THEN Append(bulk_data_bookings, booking)
                      ELSE bulk_data_bookings
                /\ bulk_data_refunds' =
                      IF transaction_type = "refund" /\ refund_valid(refund)
                      THEN Append(bulk_data_refunds, refund)
                      ELSE bulk_data_refunds
                /\ UNCHANGED <<pc, log>>
    /\ index' = index + 1
    /\ UNCHANGED <<file_format, bank_name, transaction_type, file_content,
                   df, bank_code, calls, probe, view_vars>>

\* one pass of the body of: for index, row in df.iterrows()
\* (row.get and the keys of transaction_data raise no KeyError, so of the two
\* handlers of the inner try only except Exception is reached, by the
\* ValueError of float().)
ProcessRow ==
    /\ pc = "rows"
    /\ index < Len(df.rows)
    /\ LET row == df.rows[index + 1]
           booking == booking_data(bank_code.val, df.columns, row)
           refund == refund_data(bank_code.val, df.columns, row)
       IN  IF transaction_type = "booking"
           THEN IF booking_raises(booking)
                THEN /\ log' = Append(log, RowError(index))
                     /\ UNCHANGED <<bulk_data_bookings, bulk_data_refunds>>
                ELSE /\ bulk_data_bookings' =
                            IF booking_valid(booking)
                            THEN Append(bulk_data_bookings, booking)
                            ELSE bulk_data_bookings
                     /\ UNCHANGED <<bulk_data_refunds, log>>
           ELSE IF transaction_type = "refund"
           THEN IF refund_raises(refund)
                THEN /\ log' = Append(log, RowError(index))
                     /\ UNCHANGED <<bulk_data_bookings, bulk_data_refunds>>
                ELSE /\ bulk_data_refunds' =
                            IF refund_valid(refund)
                            THEN Append(bulk_data_refunds, refund)
                            ELSE bulk_data_refunds
                     /\ UNCHANGED <<bulk_data_bookings, log>>
           ELSE UNCHANGED <<bulk_data_bookings, bulk_data_refunds, log>>
    /\ index' = index + 1
    /\ UNCHANGED <<pc, file_format, bank_name, transaction_type, file_content,
                   df, bank_code, calls, probe, view_vars>>

\* a call of a bulk insert method of the models
Call(method, records) == [method |-> method, records |-> records]

\* after the loop: if bulk_data_bookings: bulk_create_booking_transactions.
\* The method returns, or its exception reaches the outer handler.
InsertBookings ==
    /\ pc = "rows"
    /\ index = Len(df.rows)
    /\ IF bulk_data_bookings # <<>>
       THEN /\ calls' = Append(calls,
                  Call("bulk_create_booking_transactions", bulk_data_bookings))
            /\ \E raises \in BOOLEAN :
                  IF raises
                  THEN /\ log' = Append(log, FileError("the method's exception", {}))
                       /\ pc' = "done"
                  ELSE /\ pc' = "insert_refunds"
                       /\ UNCHANGED log
       ELSE /\ pc' = "insert_refunds"
            /\ UNCHANGED <<calls, log>>
    /\ UNCHANGED <<file_format, bank_name, transaction_type, file_content, df,
                   bank_code, index, bulk_data_bookings, bulk_data_refunds, probe, view_vars>>

\* a slip: bulk_create_refund_transactions is called without the test of
\* the batch
InsertRefunds_unguarded ==
    /\ pc = "insert_refunds"
    /\ calls' = Append(calls,
          Call("bulk_create_refund_transactions", bulk_data_refunds))
    /\ pc' = "done"
    /\ UNCHANGED <<file_format, bank_name, transaction_type, file_content, df,
                   bank_code, index, bulk_data_bookings, bulk_data_refunds,
                   log, probe, view_vars>>

\* if bulk_data_refunds: bulk_create_refund_transactions; then the task ends
InsertRefunds ==
    /\ pc = "insert_refunds"
    /\ IF bulk_data_refunds # <<>>
       THEN /\ calls' = Append(calls,
                  Call("bulk_create_refund_transactions", bulk_data_refunds))
            /\ \E raises \in BOOLEAN :
                  IF raises
                  THEN log' = Append(log, FileError("the method's exception", {}))
                  ELSE UNCHANGED log
       ELSE UNCHANGED <<calls, log>>
    /\ pc' = "done"
    /\ UNCHANGED <<file_format, bank_name, transaction_type, file_content, df,
                   bank_code, index, bulk_data_bookings, bulk_data_refunds, probe, view_vars>>

Next ==
    \/ ReadFile
    \/ NormalizeHeaders
    \/ ProcessRow
    \/ InsertBookings
    \/ InsertRefunds

Spec == Init /\ [][Next]_vars

---------------------------------------------------------------------------
(* clean_column_name and convert_to_int called on their own *)

\* no task is running
Idle ==
    /\ pc = "idle"
    /\ file_format = "csv"
    /\ bank_name = "karur_vysya"
    /\ transaction_type = "booking"
    /\ file_content = Unparseable
    /\ df = EmptyFrame
    /\ bank_code = NoneResult
    /\ index = 0
    /\ bulk_data_bookings = <<>>
    /\ bulk_data_refunds = <<>>
    /\ calls = <<>>
    /\ log = <<>>

task_vars == <<pc, file_format, bank_name, transaction_type, file_content, df,
               bank_code, index, bulk_data_bookings, bulk_data_refunds, calls,
               log>>

HeaderAlphabet == {"A", "b", " ", "\t", ".", "_"}

\* the header strings of the model: every string over HeaderAlphabet up to
\* MaxHeaderLen characters, and the headers of the schemas in both styles
HeaderInputs ==
    StringsUpTo(HeaderAlphabet, MaxHeaderLen)
    \cup UNION {Range(DeclaredColumns(type)) \cup Range(RestyledColumns(type)) :
                   type \in {"booking", "refund"}}
    \cup {"IRCTCORDERNO"}

InitClean ==
    /\ Idle
    /\ NoUpload
    /\ \E s \in HeaderInputs :
          probe = [fn |-> "clean_column_name", arg |-> s, ret |-> "",
                   returned |-> FALSE]

CallClean ==
    /\ probe.fn = "clean_column_name"
    /\ ~probe.returned
    /\ probe' = [probe EXCEPT !.ret = clean_column_name(probe.arg),
                              !.returned = TRUE]
    /\ UNCHANGED <<task_vars, view_vars>>

NextClean == CallClean

SpecClean == InitClean /\ [][NextClean]_vars

NumberAlphabet == {"0", "1", "9", ".", "-", "a", " "}

\* the values of the model given to convert_to_int: NaN, None, every string
\* over NumberAlphabet up to MaxNumLen characters, and some longer texts
IntInputs ==
    {NaN, None}
    \cup {Str(s) : s \in StringsUpTo(NumberAlphabet, MaxNumLen)}
    \cup {Str(s) : s \in {"12345", "678.0", "-12.75", "inf", "-inf",
                          "Infinity", "nan", " 42 ", "+7.5", "1.2.3"}}

InitInt ==
    /\ Idle
    /\ NoUpload
    /\ \E val \in IntInputs :
          probe = [fn |-> "convert_to_int", arg |-> val, ret |-> NoneResult,
                   returned |-> FALSE]

CallInt ==
    /\ probe.fn = "convert_to_int"
    /\ ~probe.returned
    /\ probe' = [probe EXCEPT !.ret = convert_to_int(probe.arg),
                              !.returned = TRUE]
    /\ UNCHANGED <<task_vars, view_vars>>

NextInt == CallInt

SpecInt == InitInt /\ [][NextInt]_vars

---------------------------------------------------------------------------
(* Claims about the helpers *)

\* the characters header cleaning is to remove
Separators == Whitespace \cup {".", "_"}

\* the characters of s that are no separators, in their order (from the end)
RECURSIVE Remaining(_)
Remaining(s) ==
    IF s = "" THEN ""
    ELSE Remaining(SubSeq(s, 1, Len(s) - 1))
         \o (IF Char(s, Len(s)) \in Separators THEN "" ELSE Char(s, Len(s)))

CleanReturned == probe.fn = "clean_column_name" /\ probe.returned

\* C8: clean_column_name removes every whitespace, '.' and '_' character and
\* nothing else, keeping the order and case of the other characters; so two
\* headers that differ only in such characters clean to the same string
\* ("IRCTC ORDER NO." and "IRCTCORDERNO" both to "IRCTCORDERNO"), and
\* cleaning a cleaned string changes nothing.
C8_CleanRemovesOnlySeparators ==
    CleanReturned =>
        /\ probe.ret = Remaining(probe.arg)
        /\ \A t \in HeaderInputs :
              Remaining(t) = Remaining(probe.arg)
                  => clean_column_name(t) = probe.ret
        /\ clean_column_name(probe.ret) = probe.ret
        /\ probe.arg \in {"IRCTC ORDER NO.", "IRCTCORDERNO"}
              => probe.ret = "IRCTCORDERNO"

\* C8 witness: a header with '_' between its words has been cleaned
C8_Witness ==
    /\ CleanReturned
    /\ probe.arg = "IRCTC_ORDER_NO"
    /\ probe.ret = "IRCTCORDERNO"

IntReturned == probe.fn = "convert_to_int" /\ probe.returned

\* the finite float f cut to its integer part, the sign kept
TruncatedTowardZero(f) == IF f.neg THEN 0 - f.ip ELSE f.ip

\* C7: convert_to_int never raises; it returns None for a null / NaN value,
\* for the empty string and for text that float() rejects or reads as inf or
\* nan; for text float() reads as a finite number it returns that number
\* truncated toward zero ("678.0" -> 678, "12345" -> 12345).
C7_ConvertToIntTotalTolerant ==
    IntReturned =>
        /\ probe.ret.kind # "raise"
        /\ (isna(probe.arg) \/ probe.arg.s = "") => probe.ret = NoneResult
        /\ (probe.arg.kind = "str" /\ probe.arg.s # "") =>
              LET f == float(probe.arg.s)
              IN  IF f.kind = "finite"
                  THEN probe.ret = IntResult(TruncatedTowardZero(f))
                  ELSE probe.ret = NoneResult
        /\ probe.arg = Str("678.0") => probe.ret = IntResult(678)
        /\ probe.arg = Str("12345") => probe.ret = IntResult(12345)

\* C7 witness: a negative decimal text has been converted, toward zero
C7_Witness ==
    /\ IntReturned
    /\ probe.arg = Str("-12.75")
    /\ probe.ret = IntResult(-12)

---------------------------------------------------------------------------
(* Claims about process_uploaded_files *)

\* the batch of the requested transaction type, and the other one
TypeBatch ==
    IF transaction_type = "booking" THEN bulk_data_bookings ELSE bulk_data_refunds
OtherBatch ==
    IF transaction_type = "booking" THEN bulk_data_refunds ELSE bulk_data_bookings

\* the dict built for row j of the DataFrame, whether building it raises, and
\* its order number and type-specific reference number
RowData(j) ==
    IF transaction_type = "booking"
    THEN booking_data(bank_code.val, df.columns, df.rows[j])
    ELSE refund_data(bank_code.val, df.columns, df.rows[j])
RowRaises(j) ==
    IF transaction_type = "booking" THEN booking_raises(RowData(j))
    ELSE refund_raises(RowData(j))
RowOrderNo(j) == RowData(j).irctc_order_no
RowRefNo(j) ==
    IF transaction_type = "booking" THEN RowData(j).bank_booking_ref_no
    ELSE RowData(j).bank_refund_ref_no
RowAmountCell(j) ==
    row_get(df.columns, df.rows[j],
            IF transaction_type = "booking" THEN "booking_amount"
            ELSE "refund_amount")
RowAmount(j) ==
    IF transaction_type = "booking" THEN RowData(j).booking_amount
    ELSE RowData(j).refund_amount

\* the row loop is running or over
InLoop == pc \in {"rows", "insert_refunds", "done"} /\ bank_code.kind = "int"

\* C1: every record in the booking batch, in the refund batch and in a batch
\* handed to a bulk insert has an integer irctc_order_no and an integer
\* type-specific reference number (bank_booking_ref_no of a booking,
\* bank_refund_ref_no of a refund); neither is ever None.
C1_BatchRecordsHaveOrderAndRef ==
    /\ \A r \in Range(bulk_data_bookings) :
          r.irctc_order_no.kind = "int" /\ r.bank_booking_ref_no.kind = "int"
    /\ \A r \in Range(bulk_data_refunds) :
          r.irctc_order_no.kind = "int" /\ r.bank_refund_ref_no.kind = "int"
    /\ \A c \in DOMAIN calls :
          \A r \in Range(calls[c].records) :
              /\ r.irctc_order_no.kind = "int"
              /\ IF calls[c].method = "bulk_create_booking_transactions"
                 THEN r.bank_booking_ref_no.kind = "int"
                 ELSE r.bank_refund_ref_no.kind = "int"

\* C1 witness: a batch has been handed to a bulk insert from a table that
\* also held a row without a reference number
C1_Witness ==
    /\ pc = "done"
    /\ calls # <<>>
    /\ \E j \in 1..Len(df.rows) : ~RowRaises(j) /\ RowRefNo(j).kind = "None"

\* the batch the non-null test yields from the first k rows: the dicts of
\* the rows that raise nothing and have both numbers non-null
RECURSIVE NonNullBatch(_)
NonNullBatch(k) ==
    IF k = 0 THEN <<>>
    ELSE NonNullBatch(k - 1)
         \o (IF /\ ~RowRaises(k)
                /\ RowOrderNo(k).kind # "None"
                /\ RowRefNo(k).kind # "None"
             THEN <<RowData(k)>> ELSE <<>>)

\* C2: of the rows whose coercion raises nothing, exactly those whose order
\* number or type-specific reference number is None are dropped; every other
\* one, whatever its integers, is appended to the batch.
C2_DroppedIffNull ==
    InLoop => TypeBatch = NonNullBatch(index)


\* the amount cell is text that float() rejects
NonNumericAmount(j) ==
    RowAmountCell(j).kind = "str" /\ float(RowAmountCell(j).s).kind = "ValueError"

ZeroAmount == Finite(FALSE, 0, "")

\* C3: a pass of the row loop over a row whose amount cell is null (an empty
\* or absent cell) logs nothing, derives the amount 0.0 and appends the
\* row's dict when its order and reference numbers pass the test; a pass
\* over a row whose amount cell is text that is no number logs a row-level
\* error and appends nothing.
C3_AmountAsymmetry ==
    [][(pc = "rows" /\ index' = index + 1) =>
          LET j == index + 1
          IN  /\ isna(RowAmountCell(j)) =>
                    /\ log' = log
                    /\ RowAmount(j) = ZeroAmount
                    /\ (truthy(RowOrderNo(j)) /\ RowRefNo(j).kind = "int")
                          => TypeBatch' = Append(TypeBatch, RowData(j))
              /\ NonNumericAmount(j) =>
                    /\ TypeBatch' = TypeBatch
                    /\ OtherBatch' = OtherBatch
                    /\ log' = Append(log, RowError(index))]_vars

\* C3 witness: the booking row ("12345", "678.0", empty amount) has been
\* emitted with order 12345, booking reference 678 and amount 0.0, and a row
\* with the amount "abc" has been logged as a row-level error
C3_Witness ==
    /\ InLoop
    /\ \E r \in Range(bulk_data_bookings) :
          /\ r.irctc_order_no = IntResult(12345)
          /\ r.bank_booking_ref_no = IntResult(678)
          /\ r.booking_amount = ZeroAmount
    /\ \E j \in 1..index :
          /\ RowAmountCell(j) = NaN
          /\ RowOrderNo(j) = IntResult(12345)
          /\ RowRefNo(j) = IntResult(678)
    /\ \E j \in 1..index :
          /\ RowAmountCell(j) = Str("abc")
          /\ RowError(j - 1) \in Range(log)

\* the dicts the first k rows yield when the rows in skipped are left out of
\* the table
RECURSIVE BatchWithout(_, _)
BatchWithout(k, skipped) ==
    IF k = 0 THEN <<>>
    ELSE BatchWithout(k - 1, skipped)
         \o (IF k \in skipped THEN <<>>
             ELSE LET data == RowData(k)
                  IN  IF transaction_type = "booking"
                      THEN (IF booking_valid(data) THEN <<data>> ELSE <<>>)
                      ELSE (IF refund_valid(data) THEN <<data>> ELSE <<>>))

RaisingRows(k) == {j \in 1..k : RowRaises(j)}

\* C4: a row whose derivation raises contributes no record and is logged
\* with its index; the loop goes on to the last row; the batch is the one
\* the table without the raising rows yields, in the same order; and a
\* non-empty batch is handed to the bulk insert all the same.
C4_RowFailuresContained ==
    InLoop =>
        LET raising == RaisingRows(index)
        IN  /\ TypeBatch = BatchWithout(index, raising)
            /\ \A j \in raising : RowError(j - 1) \in Range(log)
            /\ pc # "rows" => index = Len(df.rows)
            /\ (pc = "done" /\ TypeBatch # <<>>) =>
                  \E c \in DOMAIN calls : calls[c].records = TypeBatch

\* C4 witness: the task has ended after a refund row with the amount "abc"
\* raised, and the record of a later row has been handed to the bulk insert
C4_Witness ==
    /\ pc = "done"
    /\ transaction_type = "refund"
    /\ \E i \in 1..Len(df.rows), j \in 1..Len(df.rows) :
          /\ i < j
          /\ RowAmountCell(i) = Str("abc")
          /\ RowRaises(i)
          /\ ~RowRaises(j)
          /\ calls # <<>>
          /\ RowData(j) \in Range(calls[1].records)


\* the file has been read into a table and a schema exists for the request
HasSchema ==
    /\ bank_name \in DOMAIN BANK_MAPPINGS
    /\ transaction_type \in DOMAIN BANK_MAPPINGS[bank_name]
Readable == file_format \in {"excel", "csv"} /\ file_content.parses
Normalized == pc \notin {"read", "normalize", "idle"} /\ Readable /\ HasSchema

\* the cleaned required labels that are no cleaned header label of the file
MissingLabels ==
    {clean_column_name(c) :
        c \in Range(BANK_MAPPINGS[bank_name][transaction_type].columns)}
    \ {clean_column_name(h) : h \in Range(file_content.columns)}

NothingExtracted ==
    /\ index = 0
    /\ bulk_data_bookings = <<>>
    /\ bulk_data_refunds = <<>>
    /\ calls = <<>>

\* C5: when the headers of a table are checked against a schema: if
\* required cleaned labels are missing from the cleaned headers, the task
\* ends there with the warning and the error reporting exactly those
\* labels, no row processed, no record extracted and no bulk insert called;
\* if none is missing, no schema mismatch is reported and the row loop is
\* entered.  An ended task takes no further step.
C5_SchemaMismatchExact ==
    [][/\ pc # "done"
       /\ (pc = "normalize" /\ HasSchema) =>
             IF MissingLabels # {}
             THEN /\ pc' = "done"
                  /\ index' = 0
                  /\ bulk_data_bookings' = <<>>
                  /\ bulk_data_refunds' = <<>>
                  /\ calls' = <<>>
                  /\ log' = log \o
                        <<LogRecord("warning", "Missing columns in file", "",
                                    MissingLabels, -1),
                          FileError("ValueError: Missing columns after cleaning",
                                    MissingLabels)>>
             ELSE /\ pc' = "rows"
                  /\ log' = log]_vars

\* C5 witness: a file with a row but without two of the required columns
\* has been rejected
C5_Witness ==
    /\ Normalized
    /\ pc = "done"
    /\ Cardinality(MissingLabels) = 2
    /\ file_content.columns # <<>>
    /\ file_content.rows # <<>>

\* a condition the task treats as an error of the whole file
FileLevelError ==
    \/ file_format \notin {"excel", "csv"}
    \/ ~file_content.parses
    \/ bank_name \notin DOMAIN BANK_CODE_MAPPING
    \/ ~HasSchema

\* C6: with an unsupported format tag, an unparseable file, a bank without a
\* code or a request without a schema, no row is processed and no bulk
\* insert is called at any time, and the ended task has logged an error.
C6_FileErrorsPersistNothing ==
    (FileLevelError /\ pc # "idle") =>
        /\ NothingExtracted
        /\ pc \in {"read", "normalize", "done"}
        /\ pc = "done" => \E r \in Range(log) : r.level = "error"

\* C6 witness: the task has ended on a readable file with a row, all
\* required columns and an unsupported format tag
C6_Witness ==
    /\ pc = "done"
    /\ file_format = "pdf"
    /\ file_content.parses
    /\ file_content.rows # <<>>
    /\ HasSchema
    /\ MissingLabels = {}

\* the canonical field names a schema declares
CanonicalFields == Range(BANK_MAPPINGS[bank_name][transaction_type].column_mapping)

\* C9 as stated: the keys of an emitted record are exactly the canonical
\* field names of the schema's column mapping.
C9_KeysAreCanonicalFields ==
    InLoop => \A r \in Range(TypeBatch) : DOMAIN r = CanonicalFields

\* C9, amended: the keys of an emitted record are exactly the canonical
\* field names of the schema's column mapping and bank_code.
C9_KeysAreCanonicalFieldsAndBankCode ==
    InLoop =>
        \A r \in Range(TypeBatch) : DOMAIN r = CanonicalFields \cup {"bank_code"}

\* C9 witness: a refund record has been emitted
C9_Witness ==
    /\ InLoop
    /\ transaction_type = "refund"
    /\ bulk_data_refunds # <<>>

BulkMethod ==
    IF transaction_type = "booking" THEN "bulk_create_booking_transactions"
    ELSE "bulk_create_refund_transactions"

\* the row loop has consumed the last row
LoopOver == InLoop /\ index = Len(df.rows)

\* C10: no bulk insert is called before the row loop has consumed the last
\* row; there is at most one call, it is of the method of the requested
\* type and carries the complete, non-empty batch; the ended task has made
\* it exactly when the batch is non-empty; the other batch stays empty.
C10_NoPartialPersistence ==
    /\ ~LoopOver => calls = <<>>
    /\ OtherBatch = <<>>
    /\ Len(calls) <= 1
    /\ \A c \in DOMAIN calls :
          /\ calls[c].method = BulkMethod
          /\ calls[c].records = TypeBatch
          /\ calls[c].records = BatchWithout(Len(df.rows), RaisingRows(Len(df.rows)))
          /\ calls[c].records # <<>>
    /\ (pc = "done" /\ LoopOver) => (calls # <<>> <=> TypeBatch # <<>>)

\* C10 witness: the task has ended with one call carrying two records
C10_Witness ==
    /\ pc = "done"
    /\ Len(calls) = 1
    /\ Len(calls[1].records) = 2
    /\ index = 2

---------------------------------------------------------------------------
(* upload_files, the view behind the upload page, and the worker's queue *)

MaxFiles == 2

\* str.endswith
endswith(s, suffix) ==
    /\ Len(suffix) <= Len(s)
    /\ SubSeq(s, Len(s) - Len(suffix) + 1, Len(s)) = suffix

file_format_of_bare_suffix(name) ==
    IF endswith(name, "xlsx") THEN "excel" ELSE "csv"

\* file_format = 'excel' if file.name.endswith('.xlsx') else 'csv'
file_format_of(name) ==
    IF endswith(name, ".xlsx") THEN "excel" ELSE "csv"

FileNames == {"a.xlsx", "b.csv", "c.XLSX", "dxlsx", "x"}

FileBytes == {"PK", "1,2"}

\* the entries of request.FILES.getlist('file')
UploadedFiles == [name : FileNames, content : FileBytes]

\* the requests of the model: is_valid is the answer of form.is_valid(),
\* bank_name and transaction_type are what cleaned_data holds
Requests ==
    [method : {"GET", "POST"},
     is_valid : BOOLEAN,
     bank_name : {"karur_vysya", "hdfc"},
     transaction_type : {"booking", "refund"},
     files : SeqsUpTo(UploadedFiles, MaxFiles)]

InitUpload ==
    /\ Idle
    /\ probe = NoProbe
    /\ request \in Requests
    /\ view_pc = "received"
    /\ file_index = 0
    /\ queue = <<>>
    /\ outcomes = <<>>
    /\ response = NoResponse

\* if request.method == 'POST': form = UploadFileForm(...);
\* if form.is_valid(): read cleaned_data and the list of files
BindForm ==
    /\ view_pc = "received"
    /\ request.method = "POST"
    /\ request.is_valid
    /\ view_pc' = "files"
    /\ UNCHANGED <<task_vars, probe, request, file_index, queue, outcomes,
                   response>>

\* return render(request, 'upload.html', {'form': form}): the page with an
\* unbound form for another method, with the bound form when it is invalid
Render ==
    /\ view_pc = "received"
    /\ ~(request.method = "POST" /\ request.is_valid)
    /\ response' = [status |-> 200, body |-> "upload.html"]
    /\ view_pc' = "returned"
    /\ UNCHANGED <<task_vars, probe, request, file_index, queue, outcomes>>

\* the arguments of process_uploaded_files.delay
Message(file, bank, type) ==
    [file_content |-> file.content,
     file_name |-> file.name,
     bank_name |-> bank,
     transaction_type |-> type,
     file_format |-> file_format_of(file.name)]

\* one round of: for file in files: ... process_uploaded_files.delay(...)
EnqueueFile ==
    /\ view_pc = "files"
    /\ file_index < Len(request.files)
    /\ file_index' = file_index + 1
    /\ queue' = Append(queue, Message(request.files[file_index + 1],
                                      request.bank_name,
                                      request.transaction_type))
    /\ outcomes' = Append(outcomes, "queued")
    /\ UNCHANGED <<task_vars, probe, request, view_pc, response>>

\* return JsonResponse({'message': ...}, status=202)
Accept ==
    /\ view_pc = "files"
    /\ file_index = Len(request.files)
    /\ response' = [status |-> 202,
                    body |-> "Files uploaded successfully. Processing started."]
    /\ view_pc' = "returned"
    /\ UNCHANGED <<task_vars, probe, request, file_index, queue, outcomes>>

\* a worker runs process_uploaded_files on a queued message: the task ends
\* after "Finished processing" or after logging the error it caught
RunTask ==
    /\ \E k \in DOMAIN outcomes :
          /\ outcomes[k] = "queued"
          /\ \E o \in {"finished", "error_logged"} :
                outcomes' = [outcomes EXCEPT ![k] = o]
    /\ UNCHANGED <<task_vars, probe, request, view_pc, file_index, queue,
                   response>>

NextUpload ==
    \/ BindForm
    \/ Render
    \/ EnqueueFile
    \/ Accept
    \/ RunTask

SpecUpload == InitUpload /\ [][NextUpload]_vars

---------------------------------------------------------------------------
(* C11: the upload boundary *)

\* the request is a POST whose form is valid
ValidPost == request.method = "POST" /\ request.is_valid

\* the last five characters of the name are '.', 'x', 'l', 's', 'x'
HasXlsxSuffix(name) ==
    /\ Len(name) >= 5
    /\ \A j \in 1..5 : Char(name, Len(name) - 5 + j) = Char(".xlsx", j)

\* the message the k-th uploaded file is to be processed with
MessageFor(k) ==
    [file_content |-> request.files[k].content,
     file_name |-> request.files[k].name,
     bank_name |-> request.bank_name,
     transaction_type |-> request.transaction_type,
     file_format |-> IF HasXlsxSuffix(request.files[k].name) THEN "excel"
                     ELSE "csv"]

\* C11: the messages enqueued so far are those of the first files of the
\* request, in upload order, each with its file's bytes and name, the form's
\* bank and transaction type, and the tag 'excel' exactly when the name ends
\* with '.xlsx'; nothing is enqueued unless the request is a POST with a
\* valid form; no response is given before the view returns; a valid POST
\* is answered with status 202 once every file has been enqueued, whatever
\* the outcomes of the enqueued tasks are; any other request is answered
\* with the page and an empty queue.
C11_UploadEnqueuesPerFileThen202 ==
    view_pc # "idle" =>
        /\ Len(queue) <= Len(request.files)
        /\ \A k \in DOMAIN queue : queue[k] = MessageFor(k)
        /\ ~ValidPost => queue = <<>>
        /\ view_pc # "returned" => response = NoResponse
        /\ (view_pc = "returned" /\ ValidPost) =>
              /\ Len(queue) = Len(request.files)
              /\ response.status = 202
        /\ (view_pc = "returned" /\ ~ValidPost) => response.status # 202

\* C11 witness: a valid POST with an .xlsx file and another file has been
\* answered with 202 while the first task has failed and the second has not
\* run yet
C11_Witness ==
    /\ view_pc = "returned"
    /\ ValidPost
    /\ response.status = 202
    /\ Len(queue) = 2
    /\ queue[1].file_format = "excel"
    /\ queue[2].file_format = "csv"
    /\ queue[1].file_content # queue[2].file_content
    /\ outcomes = <<"error_logged", "queued">>

====
